---- MODULE Spec2Model ----
(***************************************************************************)
(* A model of pkgfile's update.c: the configuration parser                 *)
(* (find_active_repos, add_servers_from_include) and the synchronisation   *)
(* pipeline (nosr_update, download_repo_files, decompress_repo_file).      *)
(*                                                                         *)
(* C strings are sequences of one-character strings.  The parser, the       *)
(* pipeline and prepare_url are checked under three specifications,        *)
(* SpecParse, SpecUpdate and SpecUrl, which share the variables; each      *)
(* leaves the others' alone.                                               *)
(***************************************************************************)
EXTENDS Integers, Sequences, FiniteSets, TLC

\* ------------------------------------------------------------- bounds

\* Lines of the configuration file read by one call of find_active_repos.
MaxLines == 3

\* Lines of the included file.
MaxIncLines == 2

\* Repositories handed to one call of nosr_update.
MaxRepos == 2

\* Servers of one repository.
MaxServers == 3

\* Entries of one downloaded archive.
MaxEntries == 2

\* Chunks archive_read_data cuts the payload of one entry into.
MaxChunks == 2

\* Pieces a URL template handed to prepare_url is made of.
MaxPieces == 3

\* ------------------------------------------------------- C strings

\* const char * const server = "Server";
SERVER == <<"S", "e", "r", "v", "e", "r">>

\* const char * const include = "Include";
INCLUDE == <<"I", "n", "c", "l", "u", "d", "e">>

\* The literal of strcmp(section, "options").
OPTIONS == <<"o", "p", "t", "i", "o", "n", "s">>

\* The characters strtrim removes (isspace).
WS == {" ", "\t", "\n"}

RECURSIVE LTrim(_)
LTrim(s) == IF s # <<>> /\ Head(s) \in WS THEN LTrim(Tail(s)) ELSE s

RECURSIVE RTrim(_)
RTrim(s) ==
  IF s # <<>> /\ s[Len(s)] \in WS THEN RTrim(SubSeq(s, 1, Len(s) - 1)) ELSE s

\* util.c's strtrim: the string without its leading and trailing whitespace.
strtrim(s) == RTrim(LTrim(s))

\* strchr(s, c) as an index: the first position of c in s, 0 when absent.
strchr(s, c) ==
  IF \E i \in 1..Len(s) : s[i] = c
  THEN CHOOSE i \in 1..Len(s) : s[i] = c /\ \A j \in 1..(i - 1) : s[j] # c
  ELSE 0

\* if((ptr = strchr(line, '#'))) *ptr = '\0';
StripComment(s) ==
  IF strchr(s, "#") = 0 THEN s ELSE SubSeq(s, 1, strchr(s, "#") - 1)

\* The line as both loops see it after the comment strip and strtrim(line).
CleanLine(raw) == strtrim(StripComment(raw))

\* line[0] == '[' && line[strlen(line) - 1] == ']'  (line is not empty)
IsHeader(line) == line[1] = "[" /\ line[Len(line)] = "]"

\* strndup(&line[1], strlen(line) - 2)
SectionName(line) == SubSeq(line, 2, Len(line) - 1)

\* strncmp(line, server, strlen(server)) == 0
HasServerPrefix(line) ==
  Len(line) >= Len(SERVER) /\ SubSeq(line, 1, Len(SERVER)) = SERVER

\* A char * that may be NULL.
NullStr == [null |-> TRUE, str |-> <<>>]
Str(s) == [null |-> FALSE, str |-> s]

\* line_get_val(line, "="): strsep cuts the line at the first '=' and leaves
\* the rest (NULL when there is no '='), which is trimmed and returned.
line_get_val(line) ==
  IF strchr(line, "=") = 0
  THEN NullStr
  ELSE Str(strtrim(SubSeq(line, strchr(line, "=") + 1, Len(line))))

\* char *key = line, after strsep has cut it and strtrim(key).
KeyOf(line) == strtrim(SubSeq(line, 1, strchr(line, "=") - 1))

\* ------------------------------------------------------- the inputs

\* fgets keeps the newline of the line it returns.
fgets(text) == Append(text, "\n")

\* The path named by the Include directive of the pool.
IncPath == <<"i">>

\* Configuration lines the parser is fed (before fgets adds the newline).
LinePool ==
  { <<"[", "c", "]">>,
    <<"[", "o", "p", "t", "i", "o", "n", "s", "]">>,
    <<"[", "]">>,
    <<"S", "e", "r", "v", "e", "r", "=", "a">>,
    <<" ", "S", "e", "r", "v", "e", "r", " ", "=", " ", "b", " ", "#", "x">>,
    <<"I", "n", "c", "l", "u", "d", "e", "=", "i">>,
    <<"S", "e", "r", "v", "e", "r", "x", "=", "y">>,
    <<"#", "c">> }

\* Lines of the included file.
IncLinePool ==
  { <<"S", "e", "r", "v", "e", "r", "=", "p">>,
    <<"S", "e", "r", "v", "e", "r", " ", "=", " ", "q", "#", "x">>,
    <<"S", "e", "r", "v", "e", "r", "x", "=", "y">>,
    <<"S", "e", "r", "v", "e", "r">>,
    <<"[", "c", "]">> }

RECURSIVE SeqsUpTo(_, _)
SeqsUpTo(S, n) ==
  IF n = 0 THEN {<<>>}
  ELSE LET shorter == SeqsUpTo(S, n - 1)
       IN  shorter \cup {Append(q, x) : q \in {r \in shorter : Len(r) = n - 1}, x \in S}

\* A file that fopen cannot open.
NoFile == [exists |-> FALSE, lines |-> <<>>]

\* The included file before any fopen has looked at it.
Unopened == [exists |-> FALSE, lines |-> <<"?">>]

\* What the file system may hold under the included path.
IncludeFiles ==
  {NoFile} \cup {[exists |-> TRUE, lines |-> q] : q \in SeqsUpTo(IncLinePool, MaxIncLines)}

\* ---------------------------------------------------------- the state

VARIABLES
  pcParse,       \* where find_active_repos is: main, include, done, crashed
  file,          \* the lines fgets has returned from the configuration so far
  incFile,       \* the file under IncPath, Unopened until its first fopen
  active_repos,  \* struct repo_t **active_repos, *repocount its length
  in_options,    \* int in_options
  incRepo,       \* add_servers_from_include's repo: an index, 0 for NULL
  incPos,        \* lines of the included file read by the running scan
  incAdded,      \* history: the included lines whose value the scan appended
  oobRead,       \* history: active_repos[-1] was read
  fault,         \* none, or the fault that ended the parse
  pc,            \* where nosr_update and the function it is in are
  repos,         \* struct repo_t **repos, repocount its length
  cache,         \* what each path of the cache directory holds
  alpm,          \* static alpm_handle_t *alpm: none, live, released
  idx,           \* int i of nosr_update
  rc,            \* int r of nosr_update
  ret,           \* int ret of nosr_update
  servercount,   \* repos[i]->servercount, drawn when the download is called
  srv,           \* size_t i of download_repo_files
  fetchLog,      \* history: the fetches of the running download_repo_files
  src,           \* history: the entries the reader has delivered in this call
  out,           \* the entries written to the temporary file in this call
  readEnd,       \* how the reading ended: none, eof, header_error, data_error
  wfail,         \* the write that failed in this call: none, header, data, close
  calls,         \* history: the stage calls nosr_update has made
  stageFailed,   \* history: some repository failed its download or transcode
  cacheWritable, \* input: access(CACHEPATH, W_OK) succeeds
  renameFailed,  \* history: the repositories (by position) whose rename failed
  pcUrl,         \* where prepare_url is: idle, called, returned
  url,           \* const char *url of prepare_url, the template
  repo,          \* const char *repo of prepare_url
  arch,          \* const char *arch of prepare_url
  temp           \* char *temp of prepare_url, the string it returns

parseVars ==
  <<pcParse, file, incFile, active_repos, in_options, incRepo, incPos,
    incAdded, oobRead, fault>>

updateVars ==
  <<pc, repos, cache, alpm, idx, rc, ret, servercount, srv, fetchLog, src, out,
    readEnd, wfail, calls, stageFailed, cacheWritable, renameFailed>>

urlVars == <<pcUrl, url, repo, arch, temp>>

vars == <<parseVars, updateVars, urlVars>>

\* ------------------------------------------------------- repositories

\* repo_new(reponame): a repository with that name and no server.
repo_new(reponame) == [name |-> reponame, servers |-> <<>>]

\* A mutant of repo_add_server: the server goes to the first repository.
repo_add_server_first(arr, slot, server) ==
  IF slot = 0 THEN arr
  ELSE [arr EXCEPT ![1].servers = Append(@, server)]

\* repo_add_server(repo, server) on slot `slot` of arr; slot 0 is the NULL repo,
\* for which the call returns 1 and changes nothing.
repo_add_server(arr, slot, server) ==
  IF slot = 0 THEN arr
  ELSE [arr EXCEPT ![slot].servers = Append(@, server)]

\* What fopen(file, "r") of add_servers_from_include may find under path.  The
\* content of the included file is an input: it is drawn when the file is
\* first opened and is the same at every later fopen.
fopen(path) ==
  IF path # IncPath THEN {NoFile}
  ELSE IF incFile = Unopened THEN IncludeFiles
  ELSE {incFile}

\* ------------------------------------------- find_active_repos, per line

\* fgets(line, 4096, fp) returns the next line of the configuration.
ReadsLine(raw) ==
  /\ pcParse = "main"
  /\ Len(file) < MaxLines
  /\ raw \in LinePool
  /\ file' = Append(file, raw)

\* active_repos after the header branch of the loop body: a header that is
\* not [options] appends repo_new(section).
ReposAfterHeader(line) ==
  IF IsHeader(line)
  THEN Append(active_repos, repo_new(SectionName(line)))
  ELSE active_repos

\* The line is a section header naming options.
IsOptionsHeader(line) == IsHeader(line) /\ SectionName(line) = OPTIONS

\* A mutant of ReachesAssignTest: if(in_options) continue; is missing.
ReachesAssignTest_NoOptionsTest(line) ==
  /\ line # <<>>
  /\ ~IsOptionsHeader(line)

\* The line gets past the blank test, the options header and if(in_options).
ReachesAssignTest(line) ==
  /\ line # <<>>
  /\ ~IsOptionsHeader(line)
  /\ (IsHeader(line) \/ ~in_options)

\* What reading active_repos[*repocount - 1] yields for the repositories
\* arr: the last slot, or, when there is none, a read below the array
\* whose outcome is a fault or a NULL pointer (slot 0).
SlotOutcomes(arr) ==
  IF Len(arr) > 0 THEN {Len(arr)} ELSE {0, -1}

\* if(*strtrim(line) == '\0') continue;
BlankLine ==
  \E raw \in LinePool :
    /\ ReadsLine(raw)
    /\ CleanLine(fgets(raw)) = <<>>
    /\ UNCHANGED <<pcParse, incFile, active_repos, in_options, incRepo, incPos,
                   incAdded, oobRead, fault>>
    /\ UNCHANGED updateVars
    /\ UNCHANGED urlVars

\* [options]: in_options = 1; continue;
OptionsHeader ==
  \E raw \in LinePool :
    LET line == CleanLine(fgets(raw)) IN
    /\ ReadsLine(raw)
    /\ line # <<>>
    /\ IsOptionsHeader(line)
    /\ in_options' = TRUE
    /\ UNCHANGED <<pcParse, incFile, active_repos, incRepo, incPos, incAdded,
                   oobRead, fault>>
    /\ UNCHANGED updateVars
    /\ UNCHANGED urlVars

\* if(in_options) continue;
LineInOptions ==
  \E raw \in LinePool :
    LET line == CleanLine(fgets(raw)) IN
    /\ ReadsLine(raw)
    /\ line # <<>>
    /\ ~IsHeader(line)
    /\ in_options
    /\ UNCHANGED <<pcParse, incFile, active_repos, in_options, incRepo, incPos,
                   incAdded, oobRead, fault>>
    /\ UNCHANGED updateVars
    /\ UNCHANGED urlVars

\* A line without '=': a repository header, or a bare word.
LineWithoutAssign ==
  \E raw \in LinePool :
    LET line == CleanLine(fgets(raw)) IN
    /\ ReadsLine(raw)
    /\ ReachesAssignTest(line)
    /\ strchr(line, "=") = 0
    /\ active_repos' = ReposAfterHeader(line)
    /\ in_options' = FALSE
    /\ UNCHANGED <<pcParse, incFile, incRepo, incPos, incAdded, oobRead, fault>>
    /\ UNCHANGED updateVars
    /\ UNCHANGED urlVars

\* key=value with a key that is neither Server nor Include.
LineOtherKey ==
  \E raw \in LinePool :
    LET line == CleanLine(fgets(raw)) IN
    /\ ReadsLine(raw)
    /\ ReachesAssignTest(line)
    /\ strchr(line, "=") # 0
    /\ KeyOf(line) \notin {SERVER, INCLUDE}
    /\ active_repos' = ReposAfterHeader(line)
    /\ in_options' = FALSE
    /\ UNCHANGED <<pcParse, incFile, incRepo, incPos, incAdded, oobRead, fault>>
    /\ UNCHANGED updateVars
    /\ UNCHANGED urlVars

\* Server=val: repo_add_server(active_repos[*repocount - 1], val);
LineServer ==
  \E raw \in LinePool :
    LET line  == CleanLine(fgets(raw))
        arr == ReposAfterHeader(line)
    IN
    /\ ReadsLine(raw)
    /\ ReachesAssignTest(line)
    /\ strchr(line, "=") # 0
    /\ KeyOf(line) = SERVER
    /\ in_options' = FALSE
    /\ oobRead' = (oobRead \/ Len(arr) = 0)
    /\ \E slot \in SlotOutcomes(arr) :
         IF slot = -1
         THEN /\ pcParse' = "crashed"
              /\ fault' = "bad_slot"
              /\ active_repos' = arr
         ELSE /\ active_repos' = repo_add_server(arr, slot, line_get_val(line).str)
              /\ UNCHANGED <<pcParse, fault>>
    /\ UNCHANGED <<incFile, incRepo, incPos, incAdded>>
    /\ UNCHANGED updateVars
    /\ UNCHANGED urlVars

\* A mutant of IncludeNotOpened: the failed fopen ends the parse.
IncludeNotOpened_EndsParse ==
  /\ pcParse' = "done"
  /\ UNCHANGED <<fault, incRepo, incPos>>

\* fopen returned NULL: perror("fopen"); return 1; and the main loop goes on
\* with the next line, the result of the call being ignored.
IncludeNotOpened ==
  UNCHANGED <<pcParse, fault, incRepo, incPos>>

\* Include=val: add_servers_from_include(active_repos[*repocount - 1], val),
\* up to its fopen; the scan of an opened file goes on in the Inc actions.
LineInclude ==
  \E raw \in LinePool :
    LET line  == CleanLine(fgets(raw))
        arr == ReposAfterHeader(line)
    IN
    /\ ReadsLine(raw)
    /\ ReachesAssignTest(line)
    /\ strchr(line, "=") # 0
    /\ KeyOf(line) = INCLUDE
    /\ in_options' = FALSE
    /\ active_repos' = arr
    /\ oobRead' = (oobRead \/ Len(arr) = 0)
    /\ \E slot \in SlotOutcomes(arr) :
         IF slot = -1
         THEN /\ pcParse' = "crashed"
              /\ fault' = "bad_slot"
              /\ UNCHANGED <<incFile, incRepo, incPos>>
         ELSE \E fp \in fopen(line_get_val(line).str) :
                /\ incFile' = fp
                /\ IF ~fp.exists
                   THEN IncludeNotOpened
                   ELSE /\ pcParse' = "include"
                        /\ incRepo' = slot
                        /\ incPos' = 0
                        /\ UNCHANGED fault
    /\ UNCHANGED incAdded
    /\ UNCHANGED updateVars
    /\ UNCHANGED urlVars

\* fgets returns NULL: free(section); fclose(fp); return active_repos;
EndOfFile ==
  /\ pcParse = "main"
  /\ pcParse' = "done"
  /\ UNCHANGED <<file, incFile, active_repos, in_options, incRepo, incPos,
                 incAdded, oobRead, fault>>
  /\ UNCHANGED updateVars
  /\ UNCHANGED urlVars

\* ------------------------------------- add_servers_from_include, per line

\* The line the scan's fgets returns next.
IncLine == CleanLine(fgets(incFile.lines[incPos + 1]))

IncReadsLine ==
  /\ pcParse = "include"
  /\ incPos < Len(incFile.lines)
  /\ incPos' = incPos + 1

\* A blank line (continue), or one that does not begin with Server.
IncIgnored ==
  /\ IncReadsLine
  /\ (IncLine = <<>> \/ ~HasServerPrefix(IncLine))
  /\ UNCHANGED <<pcParse, file, incFile, active_repos, in_options, incRepo,
                 incAdded, oobRead, fault>>
  /\ UNCHANGED updateVars
  /\ UNCHANGED urlVars

\* A line that begins with Server: repo_add_server(repo, line_get_val(line)).
\* With a repo and no '=' in the line the server is NULL and strdup(NULL)
\* faults.
IncServer ==
  /\ IncReadsLine
  /\ IncLine # <<>>
  /\ HasServerPrefix(IncLine)
  /\ LET ptr == line_get_val(IncLine) IN
     IF incRepo = 0
     THEN UNCHANGED <<pcParse, active_repos, incAdded, fault>>
     ELSE IF ptr.null
     THEN /\ pcParse' = "crashed"
          /\ fault' = "null_server"
          /\ UNCHANGED <<active_repos, incAdded>>
     ELSE /\ active_repos' = repo_add_server(active_repos, incRepo, ptr.str)
          /\ incAdded' = Append(incAdded, incFile.lines[incPos + 1])
          /\ UNCHANGED <<pcParse, fault>>
  /\ UNCHANGED <<file, incFile, in_options, incRepo, oobRead>>
  /\ UNCHANGED updateVars
  /\ UNCHANGED urlVars

\* The scan's fgets returns NULL: fclose(fp); return 0; back in the main loop.
IncEof ==
  /\ pcParse = "include"
  /\ incPos = Len(incFile.lines)
  /\ pcParse' = "main"
  /\ UNCHANGED <<file, incFile, active_repos, in_options, incRepo, incPos,
                 incAdded, oobRead, fault>>
  /\ UNCHANGED updateVars
  /\ UNCHANGED urlVars

\* --------------------------------------------- the parser's specification

\* find_active_repos has not been called.
ParserAtRest ==
  /\ pcParse = "idle"
  /\ file = <<>>
  /\ incFile = Unopened
  /\ active_repos = <<>>
  /\ in_options = FALSE
  /\ incRepo = 0
  /\ incPos = 0
  /\ incAdded = <<>>
  /\ oobRead = FALSE
  /\ fault = "none"

\* nosr_update has not been called.
UpdateAtRest ==
  /\ pc = "idle"
  /\ repos = <<>>
  /\ cache = [p \in {} |-> "absent"]
  /\ alpm = "none"
  /\ idx = 0
  /\ rc = 0
  /\ ret = 0
  /\ servercount = 0
  /\ srv = 0
  /\ fetchLog = <<>>
  /\ src = <<>>
  /\ out = <<>>
  /\ readEnd = "none"
  /\ wfail = "none"
  /\ calls = <<>>
  /\ stageFailed = FALSE
  /\ cacheWritable = TRUE
  /\ renameFailed = {}

\* prepare_url has not been called.
UrlAtRest ==
  /\ pcUrl = "idle"
  /\ url = <<>>
  /\ repo = <<>>
  /\ arch = <<>>
  /\ temp = <<>>

InitParse ==
  /\ UpdateAtRest
  /\ UrlAtRest
  /\ pcParse = "main"
  /\ file = <<>>
  /\ incFile = Unopened
  /\ active_repos = <<>>
  /\ in_options = FALSE
  /\ incRepo = 0
  /\ incPos = 0
  /\ incAdded = <<>>
  /\ oobRead = FALSE
  /\ fault = "none"

NextParse ==
  \/ BlankLine
  \/ OptionsHeader
  \/ LineInOptions
  \/ LineWithoutAssign
  \/ LineOtherKey
  \/ LineServer
  \/ LineInclude
  \/ EndOfFile
  \/ IncIgnored
  \/ IncServer
  \/ IncEof

SpecParse == InitParse /\ [][NextParse]_vars

\* ------------------------------------------------- the cache directory

\* The names the repositories of a run may have.
Names == {<<"c">>, <<"e">>}

\* snprintf(b, sizeof(b), CACHEPATH "/%s.files", dbname)
FilesPath(name) == <<name, ".files">>

\* snprintf(outfilename, PATH_MAX, CACHEPATH "/%s.files~", repo->name)
TempPath(name) == <<name, ".files~">>

CachePaths == {FilesPath(n) : n \in Names} \cup {TempPath(n) : n \in Names}

\* What a path of the cache holds is one of: absent, nothing; old, the file
\* a previous run left; download, the archive as fetched; cpio_full, a
\* sequential archive holding every entry of the download; cpio_part, one
\* that is truncated or still being written.

\* unlink(b) of unlink_files_dbfile.
unlink_files_dbfile(dbname) == [cache EXCEPT ![FilesPath(dbname)] = "absent"]

\* The log of stage calls with the result of the call that is returning.
Returned(code) ==
  [calls EXCEPT ![Len(calls)].result = IF code = 0 THEN "ok" ELSE "failed"]

\* The repository nosr_update is at: repos[i].
CurrentRepo == repos[idx + 1]

\* libarchive's ARCHIVE_FATAL, the code of a failed open.
ArchiveOpenFailure == {-30}

\* ----------------------------------------------------------- nosr_update

\* A mutant of CacheNotWritable: the error is printed and the run goes on.
CacheNotWritable_GoesOn ==
  /\ pc = "start"
  /\ ~cacheWritable
  /\ alpm' = "live"
  /\ pc' = "loop"
  /\ UNCHANGED <<repos, cache, idx, rc, ret, servercount, srv, fetchLog, src,
                 out, readEnd, wfail, calls, stageFailed>>
  /\ UNCHANGED <<cacheWritable, renameFailed>>
  /\ UNCHANGED parseVars
  /\ UNCHANGED urlVars

\* access(CACHEPATH, W_OK) fails: return 1.
CacheNotWritable ==
  /\ pc = "start"
  /\ ~cacheWritable
  /\ ret' = 1
  /\ pc' = "returned"
  /\ UNCHANGED <<repos, cache, alpm, idx, rc, servercount, srv, fetchLog, src,
                 out, readEnd, wfail, calls, stageFailed>>
  /\ UNCHANGED <<cacheWritable, renameFailed>>
  /\ UNCHANGED parseVars
  /\ UNCHANGED urlVars

\* The cache is writable and alpm_initialize returns NULL: return 1.
AlpmInitFails ==
  /\ pc = "start"
  /\ cacheWritable
  /\ ret' = 1
  /\ pc' = "returned"
  /\ UNCHANGED <<repos, cache, alpm, idx, rc, servercount, srv, fetchLog, src,
                 out, readEnd, wfail, calls, stageFailed>>
  /\ UNCHANGED <<cacheWritable, renameFailed>>
  /\ UNCHANGED parseVars
  /\ UNCHANGED urlVars

\* The cache is writable and alpm_initialize succeeds: on to the loop.
AlpmInitialized ==
  /\ pc = "start"
  /\ cacheWritable
  /\ alpm' = "live"
  /\ pc' = "loop"
  /\ UNCHANGED <<repos, cache, idx, rc, ret, servercount, srv, fetchLog, src,
                 out, readEnd, wfail, calls, stageFailed>>
  /\ UNCHANGED <<cacheWritable, renameFailed>>
  /\ UNCHANGED parseVars
  /\ UNCHANGED urlVars

\* i < repocount: r = download_repo_files(repos[i]), up to its loop.  The
\* server list of the repository is an input; its length is drawn here, when
\* the loop reaches the repository.
CallDownload ==
  /\ pc = "loop"
  /\ idx < Len(repos)
  /\ \E n \in 0..MaxServers : servercount' = n
  /\ srv' = 0
  /\ fetchLog' = <<>>
  /\ calls' = Append(calls, [fn |-> "download", repo |-> idx + 1, result |-> "pending"])
  /\ pc' = "dl_loop"
  /\ UNCHANGED <<repos, cache, alpm, idx, rc, ret, src, out, readEnd, wfail,
                 stageFailed>>
  /\ UNCHANGED <<cacheWritable, renameFailed>>
  /\ UNCHANGED parseVars
  /\ UNCHANGED urlVars

\* A mutant of ReleaseAndReturn: return ret; without the alpm_release.
ReleaseAndReturn_KeepsHandle ==
  /\ pc = "loop"
  /\ idx = Len(repos)
  /\ pc' = "returned"
  /\ UNCHANGED <<repos, cache, alpm, idx, rc, ret, servercount, srv, fetchLog,
                 src, out, readEnd, wfail, calls, stageFailed>>
  /\ UNCHANGED <<cacheWritable, renameFailed>>
  /\ UNCHANGED parseVars
  /\ UNCHANGED urlVars

\* i == repocount: alpm_release(alpm); return ret;
ReleaseAndReturn ==
  /\ pc = "loop"
  /\ idx = Len(repos)
  /\ alpm' = "released"
  /\ pc' = "returned"
  /\ UNCHANGED <<repos, cache, idx, rc, ret, servercount, srv, fetchLog, src,
                 out, readEnd, wfail, calls, stageFailed>>
  /\ UNCHANGED <<cacheWritable, renameFailed>>
  /\ UNCHANGED parseVars
  /\ UNCHANGED urlVars

\* -------------------------------------------------- download_repo_files

\* One turn of the loop in which alpm_fetch_pkgurl returns NULL: the cached
\* file is unlinked, the fetch leaves nothing under its name, the warning is
\* printed and the loop goes on.
FetchFails ==
  /\ pc = "dl_loop"
  /\ srv < servercount
  /\ cache' = unlink_files_dbfile(CurrentRepo.name)
  /\ fetchLog' = Append(fetchLog, [server |-> srv, ok |-> FALSE])
  /\ srv' = srv + 1
  /\ UNCHANGED <<pc, repos, alpm, idx, rc, ret, servercount, src, out, readEnd,
                 wfail, calls, stageFailed>>
  /\ UNCHANGED <<cacheWritable, renameFailed>>
  /\ UNCHANGED parseVars
  /\ UNCHANGED urlVars

\* One turn of the loop in which alpm_fetch_pkgurl succeeds: the cached file
\* is unlinked, the fetch stores the archive under its name; return 0.
FetchSucceeds ==
  /\ pc = "dl_loop"
  /\ srv < servercount
  /\ cache' = [unlink_files_dbfile(CurrentRepo.name)
                 EXCEPT ![FilesPath(CurrentRepo.name)] = "download"]
  /\ fetchLog' = Append(fetchLog, [server |-> srv, ok |-> TRUE])
  /\ rc' = 0
  /\ pc' = "downloaded"
  /\ calls' = Returned(0)
  /\ UNCHANGED <<repos, alpm, idx, ret, servercount, srv, src, out, readEnd,
                 wfail, stageFailed>>
  /\ UNCHANGED <<cacheWritable, renameFailed>>
  /\ UNCHANGED parseVars
  /\ UNCHANGED urlVars

\* A mutant of ServersExhausted: the function ends with return 0.
ServersExhausted_ReturnsZero ==
  /\ pc = "dl_loop"
  /\ srv = servercount
  /\ rc' = 0
  /\ pc' = "downloaded"
  /\ calls' = Returned(0)
  /\ UNCHANGED <<repos, cache, alpm, idx, ret, servercount, srv, fetchLog, src,
                 out, readEnd, wfail, stageFailed>>
  /\ UNCHANGED <<cacheWritable, renameFailed>>
  /\ UNCHANGED parseVars
  /\ UNCHANGED urlVars

\* i == repo->servercount: return 1.
ServersExhausted ==
  /\ pc = "dl_loop"
  /\ srv = servercount
  /\ rc' = 1
  /\ pc' = "downloaded"
  /\ calls' = Returned(1)
  /\ UNCHANGED <<repos, cache, alpm, idx, ret, servercount, srv, fetchLog, src,
                 out, readEnd, wfail, stageFailed>>
  /\ UNCHANGED <<cacheWritable, renameFailed>>
  /\ UNCHANGED parseVars
  /\ UNCHANGED urlVars

\* A mutant of DownloadFailed: the failure ends the loop over the
\* repositories.
DownloadFailed_EndsLoop ==
  /\ pc = "downloaded"
  /\ rc # 0
  /\ ret' = rc
  /\ idx' = Len(repos)
  /\ stageFailed' = TRUE
  /\ servercount' = 0
  /\ srv' = 0
  /\ fetchLog' = <<>>
  /\ pc' = "loop"
  /\ UNCHANGED <<repos, cache, alpm, rc, src, out, readEnd, wfail, calls>>
  /\ UNCHANGED <<cacheWritable, renameFailed>>
  /\ UNCHANGED parseVars
  /\ UNCHANGED urlVars

\* r != 0 after the download: ret = r; and the loop's i++.
DownloadFailed ==
  /\ pc = "downloaded"
  /\ rc # 0
  /\ ret' = rc
  /\ idx' = idx + 1
  /\ stageFailed' = TRUE
  /\ servercount' = 0
  /\ srv' = 0
  /\ fetchLog' = <<>>
  /\ pc' = "loop"
  /\ UNCHANGED <<repos, cache, alpm, rc, src, out, readEnd, wfail, calls>>
  /\ UNCHANGED <<cacheWritable, renameFailed>>
  /\ UNCHANGED parseVars
  /\ UNCHANGED urlVars

\* r == 0 after the download: r = decompress_repo_file(repos[i]), up to its
\* opening of the two archives.
CallDecompress ==
  /\ pc = "downloaded"
  /\ rc = 0
  /\ calls' = Append(calls, [fn |-> "decompress", repo |-> idx + 1, result |-> "pending"])
  /\ servercount' = 0
  /\ srv' = 0
  /\ fetchLog' = <<>>
  /\ pc' = "dec_open"
  /\ UNCHANGED <<repos, cache, alpm, idx, rc, ret, src, out, readEnd, wfail,
                 stageFailed>>
  /\ UNCHANGED <<cacheWritable, renameFailed>>
  /\ UNCHANGED parseVars
  /\ UNCHANGED urlVars

\* ------------------------------------------------- decompress_repo_file

\* archive_read_new or archive_write_new returns NULL: return -1.
DecAllocFails ==
  /\ pc = "dec_open"
  /\ rc' = -1
  /\ wfail' = "open"
  /\ pc' = "decompressed"
  /\ calls' = Returned(-1)
  /\ UNCHANGED <<repos, cache, alpm, idx, ret, servercount, srv, fetchLog, src,
                 out, readEnd, stageFailed>>
  /\ UNCHANGED <<cacheWritable, renameFailed>>
  /\ UNCHANGED parseVars
  /\ UNCHANGED urlVars

\* archive_read_open_filename or archive_write_open_filename fails: goto
\* done with ret not 0, so no rename; return ret.
DecOpenFails ==
  /\ pc = "dec_open"
  /\ \E code \in ArchiveOpenFailure :
       /\ rc' = code
       /\ calls' = Returned(code)
  /\ wfail' = "open"
  /\ pc' = "decompressed"
  /\ UNCHANGED <<repos, cache, alpm, idx, ret, servercount, srv, fetchLog, src,
                 out, readEnd, stageFailed>>
  /\ UNCHANGED <<cacheWritable, renameFailed>>
  /\ UNCHANGED parseVars
  /\ UNCHANGED urlVars

\* Both archives open: the temporary file exists and is empty.
DecOpened ==
  /\ pc = "dec_open"
  /\ cache' = [cache EXCEPT ![TempPath(CurrentRepo.name)] = "cpio_part"]
  /\ pc' = "dec_loop"
  /\ UNCHANGED <<repos, alpm, idx, rc, ret, servercount, srv, fetchLog, src,
                 out, readEnd, wfail, calls, stageFailed>>
  /\ UNCHANGED <<cacheWritable, renameFailed>>
  /\ UNCHANGED parseVars
  /\ UNCHANGED urlVars

\* The entry archive_read_next_header delivers next, before its payload.
NextEntry == [hdr |-> Len(src) + 1, data |-> <<>>]

\* The chunk archive_read_data puts into buf next: the entry's chunks are
\* numbered in the order the reader delivers them.
NextChunk == Len(src[Len(src)].data) + 1

\* archive_write_header(a_out, ae): the entry is added to the output.
archive_write_header(written, ae) == Append(written, ae)

\* A mutant of archive_write_data: the chunk replaces the payload written so
\* far instead of following it.
archive_write_data_overwrites(written, buf) ==
  [written EXCEPT ![Len(written)].data = <<buf>>]

\* archive_write_data(a_out, buf, bytes_r): the chunk is added at the end of
\* the payload of the entry whose header was written last.
archive_write_data(written, buf) ==
  [written EXCEPT ![Len(written)].data = Append(@, buf)]

\* archive_read_next_header is ARCHIVE_OK and archive_write_header too.
HeaderCopied ==
  /\ pc = "dec_loop"
  /\ Len(src) < MaxEntries
  /\ src' = Append(src, NextEntry)
  /\ out' = archive_write_header(out, NextEntry)
  /\ pc' = "dec_data"
  /\ UNCHANGED <<repos, cache, alpm, idx, rc, ret, servercount, srv, fetchLog,
                 readEnd, wfail, calls, stageFailed>>
  /\ UNCHANGED <<cacheWritable, renameFailed>>
  /\ UNCHANGED parseVars
  /\ UNCHANGED urlVars

\* archive_read_next_header is ARCHIVE_OK, archive_write_header is not: break.
HeaderWriteFails ==
  /\ pc = "dec_loop"
  /\ Len(src) < MaxEntries
  /\ src' = Append(src, NextEntry)
  /\ wfail' = "header"
  /\ pc' = "dec_close"
  /\ UNCHANGED <<repos, cache, alpm, idx, rc, ret, servercount, srv, fetchLog,
                 out, readEnd, calls, stageFailed>>
  /\ UNCHANGED <<cacheWritable, renameFailed>>
  /\ UNCHANGED parseVars
  /\ UNCHANGED urlVars

\* archive_read_next_header is not ARCHIVE_OK: the end of the archive, or an
\* error; either ends the while loop.
ReadHeaderEnds ==
  /\ pc = "dec_loop"
  /\ \E how \in {"eof", "header_error"} : readEnd' = how
  /\ pc' = "dec_close"
  /\ UNCHANGED <<repos, cache, alpm, idx, rc, ret, servercount, srv, fetchLog,
                 src, out, wfail, calls, stageFailed>>
  /\ UNCHANGED <<cacheWritable, renameFailed>>
  /\ UNCHANGED parseVars
  /\ UNCHANGED urlVars

\* archive_read_data returns bytes_r > 0 and archive_write_data returns it.
ChunkCopied ==
  /\ pc = "dec_data"
  /\ Len(src[Len(src)].data) < MaxChunks
  /\ src' = [src EXCEPT ![Len(src)].data = Append(@, NextChunk)]
  /\ out' = archive_write_data(out, NextChunk)
  /\ UNCHANGED <<pc, repos, cache, alpm, idx, rc, ret, servercount, srv,
                 fetchLog, readEnd, wfail, calls, stageFailed>>
  /\ UNCHANGED <<cacheWritable, renameFailed>>
  /\ UNCHANGED parseVars
  /\ UNCHANGED urlVars

\* archive_read_data returns bytes_r > 0, archive_write_data something else:
\* done = 1; break; break.
DataWriteFails ==
  /\ pc = "dec_data"
  /\ Len(src[Len(src)].data) < MaxChunks
  /\ src' = [src EXCEPT ![Len(src)].data = Append(@, NextChunk)]
  /\ wfail' = "data"
  /\ pc' = "dec_close"
  /\ UNCHANGED <<repos, cache, alpm, idx, rc, ret, servercount, srv, fetchLog,
                 out, readEnd, calls, stageFailed>>
  /\ UNCHANGED <<cacheWritable, renameFailed>>
  /\ UNCHANGED parseVars
  /\ UNCHANGED urlVars

\* archive_read_data returns 0: the entry is exhausted, on to the next header.
EntryEnds ==
  /\ pc = "dec_data"
  /\ pc' = "dec_loop"
  /\ UNCHANGED <<repos, cache, alpm, idx, rc, ret, servercount, srv, fetchLog,
                 src, out, readEnd, wfail, calls, stageFailed>>
  /\ UNCHANGED <<cacheWritable, renameFailed>>
  /\ UNCHANGED parseVars
  /\ UNCHANGED urlVars

\* archive_read_data returns an error code, which is below 0 and not 0, so
\* archive_write_data is called with it as the size and returns a count that
\* differs from it: done = 1; break; break.  What that write put into the
\* output, nothing or bytes that are not the entry's, is drawn.
ReadDataFails ==
  /\ pc = "dec_data"
  /\ readEnd' = "data_error"
  /\ \E garbage \in BOOLEAN :
       out' = IF garbage THEN [out EXCEPT ![Len(out)].hdr = 0] ELSE out
  /\ pc' = "dec_close"
  /\ UNCHANGED <<repos, cache, alpm, idx, rc, ret, servercount, srv, fetchLog,
                 src, wfail, calls, stageFailed>>
  /\ UNCHANGED <<cacheWritable, renameFailed>>
  /\ UNCHANGED parseVars
  /\ UNCHANGED urlVars

\* What the temporary file holds once archive_write_close has run: the whole
\* download when the reader reached the end of the archive, every write
\* succeeded and the close flushed it.
ClosedOutput(closed) ==
  IF closed /\ readEnd = "eof" /\ wfail = "none" /\ out = src
  THEN "cpio_full"
  ELSE "cpio_part"

\* The ret with which the copy loop is left: ret = 0 after the two closes.
RetAfterLoop == 0

\* archive_read_close; archive_write_close; ret = 0; the frees; ret == 0, so
\* rename(outfilename, infilename), which succeeds; return ret.
Rotated ==
  /\ pc = "dec_close"
  /\ \E closed \in BOOLEAN :
       /\ cache' = [cache EXCEPT
                      ![FilesPath(CurrentRepo.name)] = ClosedOutput(closed),
                      ![TempPath(CurrentRepo.name)] = "absent"]
       /\ wfail' = IF ~closed /\ wfail = "none" THEN "close" ELSE wfail
  /\ rc' = RetAfterLoop
  /\ pc' = "decompressed"
  /\ calls' = Returned(RetAfterLoop)
  /\ UNCHANGED <<repos, alpm, idx, ret, servercount, srv, fetchLog, src, out,
                 readEnd, stageFailed>>
  /\ UNCHANGED <<cacheWritable, renameFailed>>
  /\ UNCHANGED parseVars
  /\ UNCHANGED urlVars

\* A mutant of RenameFails: the failed rename is rolled back by removing
\* both files.
RenameFails_RemovesBoth ==
  /\ pc = "dec_close"
  /\ \E closed \in BOOLEAN :
       /\ cache' = [cache EXCEPT
                      ![FilesPath(CurrentRepo.name)] = "absent",
                      ![TempPath(CurrentRepo.name)] = "absent"]
       /\ wfail' = IF ~closed /\ wfail = "none" THEN "close" ELSE wfail
  /\ rc' = RetAfterLoop
  /\ pc' = "decompressed"
  /\ calls' = Returned(RetAfterLoop)
  /\ UNCHANGED <<repos, alpm, idx, ret, servercount, srv, fetchLog, src, out,
                 readEnd, stageFailed>>
  /\ renameFailed' = renameFailed \cup {idx + 1}
  /\ UNCHANGED cacheWritable
  /\ UNCHANGED parseVars
  /\ UNCHANGED urlVars

\* The same with a rename that fails: the message is printed; return ret.
RenameFails ==
  /\ pc = "dec_close"
  /\ \E closed \in BOOLEAN :
       /\ cache' = [cache EXCEPT
                      ![TempPath(CurrentRepo.name)] = ClosedOutput(closed)]
       /\ wfail' = IF ~closed /\ wfail = "none" THEN "close" ELSE wfail
  /\ rc' = RetAfterLoop
  /\ pc' = "decompressed"
  /\ calls' = Returned(RetAfterLoop)
  /\ UNCHANGED <<repos, alpm, idx, ret, servercount, srv, fetchLog, src, out,
                 readEnd, stageFailed>>
  /\ renameFailed' = renameFailed \cup {idx + 1}
  /\ UNCHANGED cacheWritable
  /\ UNCHANGED parseVars
  /\ UNCHANGED urlVars

\* The transcode that has just returned failed at an open, at the reading of
\* a header or at a write of a header or of data.
TranscodeFailed ==
  \/ wfail \in {"open", "header", "data"}
  \/ readEnd = "header_error"

\* Back in nosr_update: if(r != 0) ret = r; and the loop's i++.
AfterDecompress ==
  /\ pc = "decompressed"
  /\ ret' = IF rc # 0 THEN rc ELSE ret
  /\ idx' = idx + 1
  /\ stageFailed' = (stageFailed \/ TranscodeFailed)
  /\ src' = <<>>
  /\ out' = <<>>
  /\ readEnd' = "none"
  /\ wfail' = "none"
  /\ pc' = "loop"
  /\ UNCHANGED <<repos, cache, alpm, rc, servercount, srv, fetchLog, calls>>
  /\ UNCHANGED <<cacheWritable, renameFailed>>
  /\ UNCHANGED parseVars
  /\ UNCHANGED urlVars

\* ------------------------------------------ the update's specification

\* The repositories handed to nosr_update: names the parser can return (the
\* same name may come twice), and a cache in which a previous run has left
\* the file of any of them.
InitUpdate ==
  /\ ParserAtRest
  /\ UrlAtRest
  /\ pc = "start"
  /\ repos \in {[k \in 1..Len(q) |-> [name |-> q[k]]] : q \in SeqsUpTo(Names, MaxRepos)}
  /\ \E old \in SUBSET Names :
       cache = [p \in CachePaths |->
                  IF \E n \in old : p = FilesPath(n) THEN "old" ELSE "absent"]
  /\ alpm = "none"
  /\ idx = 0
  /\ rc = 0
  /\ ret = 0
  /\ servercount = 0
  /\ srv = 0
  /\ fetchLog = <<>>
  /\ src = <<>>
  /\ out = <<>>
  /\ readEnd = "none"
  /\ wfail = "none"
  /\ calls = <<>>
  /\ stageFailed = FALSE
  /\ cacheWritable \in BOOLEAN
  /\ renameFailed = {}

NextUpdate ==
  \/ CacheNotWritable
  \/ AlpmInitFails
  \/ AlpmInitialized
  \/ CallDownload
  \/ ReleaseAndReturn
  \/ FetchFails
  \/ FetchSucceeds
  \/ ServersExhausted
  \/ DownloadFailed
  \/ CallDecompress
  \/ DecAllocFails
  \/ DecOpenFails
  \/ DecOpened
  \/ HeaderCopied
  \/ HeaderWriteFails
  \/ ReadHeaderEnds
  \/ ChunkCopied
  \/ DataWriteFails
  \/ EntryEnds
  \/ ReadDataFails
  \/ Rotated
  \/ RenameFails
  \/ AfterDecompress

SpecUpdate == InitUpdate /\ [][NextUpdate]_vars

\* ----------------------------------------------------------- prepare_url

\* const char * const archvar = "$arch";
ARCHVAR == <<"$", "a", "r", "c", "h">>

\* const char * const repovar = "$repo";
REPOVAR == <<"$", "r", "e", "p", "o">>

\* The suffix download_repo_files passes: ".files".
SUFFIX == <<".", "f", "i", "l", "e", "s">>

\* needle occurs in s at position n.
OccursAt(s, needle, n) ==
  /\ n >= 1
  /\ n + Len(needle) - 1 <= Len(s)
  /\ SubSeq(s, n, n + Len(needle) - 1) = needle

\* strstr(s, needle): the position of the first occurrence, 0 for NULL.
strstr(s, needle) ==
  IF \E n \in 1..Len(s) : OccursAt(s, needle, n)
  THEN CHOOSE n \in 1..Len(s) :
         /\ OccursAt(s, needle, n)
         /\ \A m \in 1..(n - 1) : ~OccursAt(s, needle, m)
  ELSE 0

\* util.c's strreplace(str, needle, replace): a new string in which every
\* occurrence of needle in str, found from left to right, is replaced; what
\* is put in is not searched again.
RECURSIVE strreplace(_, _, _)
strreplace(str, needle, replace) ==
  LET n == strstr(str, needle) IN
  IF n = 0 THEN str
  ELSE SubSeq(str, 1, n - 1) \o replace \o
       strreplace(SubSeq(str, n + Len(needle), Len(str)), needle, replace)

\* A mutant of prepare_url: the second test is an else-if, so $repo is
\* replaced only in a template without $arch.
prepare_url_else_if(u, r, a, suffix) ==
  LET string == IF strstr(u, ARCHVAR) # 0 THEN strreplace(u, ARCHVAR, a)
                ELSE IF strstr(u, REPOVAR) # 0 THEN strreplace(u, REPOVAR, r)
                ELSE u
  IN  string \o <<"/">> \o r \o suffix

\* prepare_url(url, repo, arch, suffix): strdup(url); $arch replaced if
\* strstr finds it; then $repo replaced, in the string that gave, if strstr
\* finds it; then asprintf("%s/%s%s", string, repo, suffix).  The
\* allocations are taken to succeed.
prepare_url(u, r, a, suffix) ==
  LET afterArch == IF strstr(u, ARCHVAR) # 0 THEN strreplace(u, ARCHVAR, a) ELSE u
      string    == IF strstr(afterArch, REPOVAR) # 0
                   THEN strreplace(afterArch, REPOVAR, r)
                   ELSE afterArch
  IN  string \o <<"/">> \o r \o suffix

\* The pieces the templates are put together from: the two tokens, a
\* beginning and an end of $repo, and a separator.
UrlPieces == {ARCHVAR, REPOVAR, <<"$", "r">>, <<"p", "o">>, <<"/">>}

\* The concatenation of a sequence of strings.
RECURSIVE Concat(_)
Concat(ss) == IF ss = <<>> THEN <<>> ELSE Head(ss) \o Concat(Tail(ss))

\* The templates: up to MaxPieces pieces.
Templates == {Concat(ps) : ps \in SeqsUpTo(UrlPieces, MaxPieces)}

\* un.machine: architecture strings, one of them with a token in it.
ArchStrings == {<<"e">>, <<"x", "8", "6">>, REPOVAR}

\* prepare_url is called: its arguments are inputs.
InitUrl ==
  /\ ParserAtRest
  /\ UpdateAtRest
  /\ pcUrl = "called"
  /\ url \in Templates
  /\ repo \in Names
  /\ arch \in ArchStrings
  /\ temp = <<>>

\* The call runs to its return.
PrepareUrlReturns ==
  /\ pcUrl = "called"
  /\ temp' = prepare_url(url, repo, arch, SUFFIX)
  /\ pcUrl' = "returned"
  /\ UNCHANGED <<url, repo, arch>>
  /\ UNCHANGED <<parseVars, updateVars>>

NextUrl == PrepareUrlReturns

SpecUrl == InitUrl /\ [][NextUrl]_vars

\* ------------------------- the configuration read so far, line by line
\* The reading of the file that the claims about the parser are stated in:
\* its sections and what each line gives the section it is in.

\* The lines read so far, each as the loop body sees it.
CleanedFile == [n \in 1..Len(file) |-> CleanLine(fgets(file[n]))]

\* The positions of the section headers among the cleaned lines cl.
HeadersIn(cl) == {n \in DOMAIN cl : cl[n] # <<>> /\ IsHeader(cl[n])}

\* Those of the headers hs that open a repository.
RepoHeadersIn(cl, hs) == {n \in hs : SectionName(cl[n]) # OPTIONS}

\* The k-th smallest element of the set of positions ps.
Nth(ps, k) == CHOOSE h \in ps : Cardinality({j \in ps : j <= h}) = k

\* The first header of hs after line h, or the line after the last of len.
NextHeader(hs, h, len) ==
  IF \E j \in hs : j > h
  THEN CHOOSE j \in hs : j > h /\ \A m \in hs : m > h => j <= m
  ELSE len + 1

\* The cleaned line has the form key=value with this key.
HasKey(line, key) ==
  /\ line # <<>>
  /\ strchr(line, "=") # 0
  /\ KeyOf(line) = key

\* The values an opened included file yields: of each line accepted by the
\* scan, the text after its first '='.
RECURSIVE IncludedValues(_)
IncludedValues(lines) ==
  IF lines = <<>> THEN <<>>
  ELSE LET line == CleanLine(fgets(Head(lines)))
           here == IF line # <<>> /\ HasServerPrefix(line) /\ ~line_get_val(line).null
                   THEN <<line_get_val(line).str>>
                   ELSE <<>>
       IN  here \o IncludedValues(Tail(lines))

\* What a cleaned line gives the repository whose section it is in, inc
\* being the values of the included file.
Contribution(line, inc) ==
  IF HasKey(line, SERVER) THEN <<line_get_val(line).str>>
  ELSE IF HasKey(line, INCLUDE) /\ line_get_val(line).str = IncPath
  THEN inc
  ELSE <<>>

\* The contributions of lines from..to - 1 of cl, in file order.
RECURSIVE Contributions(_, _, _, _)
Contributions(cl, inc, from, to) ==
  IF from >= to THEN <<>>
  ELSE Contribution(cl[from], inc) \o Contributions(cl, inc, from + 1, to)

\* The repositories the cleaned lines cl describe: one per header that
\* opens a repository, in file order, with the contributions of the lines
\* between this header and the next header of any kind.
ReposOfLines(cl, inc) ==
  LET hs  == HeadersIn(cl)
      rhs == RepoHeadersIn(cl, hs)
  IN  [k \in 1..Cardinality(rhs) |->
         LET h == Nth(rhs, k)
         IN  [name    |-> SectionName(cl[h]),
              servers |-> Contributions(cl, inc, h + 1, NextHeader(hs, h, Len(cl)))]]

\* The repositories the file read so far describes.
ReposOfFile ==
  ReposOfLines(CleanedFile,
               IF incFile.exists THEN IncludedValues(incFile.lines) ELSE <<>>)

\* The cleaned lines cl without the Include= lines.
WithoutIncludes(cl) == SelectSeq(cl, LAMBDA line : ~HasKey(line, INCLUDE))

\* No section header has been read yet.
BeforeAnySection == HeadersIn(CleanedFile) = {}

\* ------------------------------------------------------------- claims

\* C1: when archive_write_header or archive_write_data has failed in a call
\* of decompress_repo_file, the canonical file holds at the return what it
\* held at the call, the archive as downloaded.
C1_WriteFailureKeepsCanonical ==
  (pc = "decompressed" /\ wfail \in {"header", "data"}) =>
    cache[FilesPath(CurrentRepo.name)] = "download"

\* C2: a run of nosr_update that went through its loop returns zero exactly
\* when no repository failed its download or its transcode (archive open,
\* header read, header write, data write).
C2_ZeroIffEveryStageSucceeded ==
  (pc = "returned" /\ alpm = "released") => (ret = 0 <=> ~stageFailed)

\* C3: when download_repo_files returns failure, the cache holds no file
\* under the repository's canonical name.
C3_FailedDownloadLeavesNoFile ==
  (pc = "downloaded" /\ rc # 0) =>
    cache[FilesPath(CurrentRepo.name)] = "absent"

\* C4: the fetches of one download_repo_files are those of servers 0, 1, 2,
\* ... in this order, each position once, none after a fetch that succeeded;
\* the function returns 0 exactly when its last fetch succeeded and failure
\* exactly when all servercount fetches were made and failed.
C4_ServersTriedInOrderUntilSuccess ==
  pc \in {"dl_loop", "downloaded"} =>
    /\ \A k \in 1..Len(fetchLog) : fetchLog[k].server = k - 1
    /\ \A k \in 1..(Len(fetchLog) - 1) : ~fetchLog[k].ok
    /\ Len(fetchLog) <= servercount
    /\ pc = "downloaded" =>
         /\ rc = 0 <=> (fetchLog # <<>> /\ fetchLog[Len(fetchLog)].ok)
         /\ rc # 0 <=> /\ Len(fetchLog) = servercount
                       /\ \A k \in 1..Len(fetchLog) : ~fetchLog[k].ok

\* C4 witness: two fetches failed, the third succeeded, the function has
\* returned 0.
C4_Witness ==
  /\ pc = "downloaded"
  /\ rc = 0
  /\ servercount = 3
  /\ fetchLog = << [server |-> 0, ok |-> FALSE], [server |-> 1, ok |-> FALSE],
                   [server |-> 2, ok |-> TRUE] >>

\* The calls of download_repo_files among the stage calls.
DownloadCalls == SelectSeq(calls, LAMBDA c : c.fn = "download")

\* C5: download_repo_files is called for the repositories in input order,
\* for every one of them by the time the loop has ended, whatever the earlier
\* ones returned; decompress_repo_file is called for a repository only right
\* after a download_repo_files of the same repository that returned 0.
C5_EveryRepoInOrderTranscodeAfterDownload ==
  /\ \A k \in 1..Len(DownloadCalls) : DownloadCalls[k].repo = k
  /\ (pc = "returned" /\ alpm = "released") => Len(DownloadCalls) = Len(repos)
  /\ \A k \in 1..Len(calls) :
       calls[k].fn = "decompress" =>
         /\ k > 1
         /\ calls[k - 1] = [fn |-> "download", repo |-> calls[k].repo, result |-> "ok"]

\* C5 witness: the run has returned; the first repository failed its
\* download, the second was downloaded and transcoded.
C5_Witness ==
  /\ pc = "returned"
  /\ Len(repos) = 2
  /\ Len(calls) = 3
  /\ calls[1] = [fn |-> "download", repo |-> 1, result |-> "failed"]
  /\ calls[2] = [fn |-> "download", repo |-> 2, result |-> "ok"]
  /\ calls[3].fn = "decompress"

\* C6: a key=value line before any section header is discarded: while no
\* header has been read there is no repository, no slot that does not exist
\* has been read, and the parse has not been cut short.
C6_LineBeforeSectionDiscarded ==
  BeforeAnySection =>
    /\ active_repos = <<>>
    /\ ~oobRead
    /\ pcParse # "crashed"

\* C7: whenever find_active_repos is between two lines or has returned, there
\* is one repository per non-options header, in file order, and the servers
\* of each are exactly the values of the Server= lines of its own section in
\* file order, with the values of an included file at the place of its
\* Include= line.
C7_ServersAreThoseOfTheSection ==
  pcParse \in {"main", "done"} => active_repos = ReposOfFile

\* C7 witness: a returned repository with a Server= value followed by the
\* two values of an included file.
C7_Witness ==
  /\ pcParse = "done"
  /\ Len(active_repos) = 1
  /\ Len(active_repos[1].servers) = 3
  /\ Len(incAdded) = 2
  /\ active_repos[1].servers[1] = <<"a">>
  /\ active_repos[1].servers[2] # active_repos[1].servers[3]

\* The line read by the step is not a section header.
ReadsNonHeader ==
  /\ Len(file') = Len(file) + 1
  /\ LET line == CleanLine(fgets(file'[Len(file')]))
     IN  line = <<>> \/ ~IsHeader(line)

\* The line read by the step is a header that opens a repository.
ReadsRepoHeader ==
  /\ Len(file') = Len(file) + 1
  /\ LET line == CleanLine(fgets(file'[Len(file')]))
     IN  line # <<>> /\ IsHeader(line) /\ SectionName(line) # OPTIONS

\* C8: inside [options] a line that is not a header changes nothing of the
\* result and starts no scan of an included file; no repository is ever
\* named options; the next repository header ends the span and opens its
\* repository, leaving the earlier ones as they were.
C8_OptionsSpanIsInert ==
  [][ /\ (in_options /\ ReadsNonHeader) =>
           /\ active_repos' = active_repos
           /\ in_options'
           /\ pcParse' = "main"
           /\ incFile' = incFile
      /\ (in_options /\ ReadsRepoHeader) =>
           /\ ~in_options'
           /\ Len(active_repos') = Len(active_repos) + 1
           /\ SubSeq(active_repos', 1, Len(active_repos)) = active_repos
      /\ \A k \in 1..Len(active_repos') : active_repos'[k].name # OPTIONS
    ]_vars

\* C8 witness: a Server= line has been read inside [options], which follows
\* the section of a repository, and that repository has no server.
C8_Witness ==
  /\ pcParse = "main"
  /\ in_options
  /\ Len(file) = 3
  /\ HeadersIn(CleanedFile) = {1, 2}
  /\ HasKey(CleanedFile[3], SERVER)
  /\ Len(active_repos) = 1
  /\ active_repos[1].servers = <<>>

\* C9: the scan of an included file appends a value only for a line whose
\* key is exactly Server, and no line of the file makes it fault.
C9_IncludeTakesOnlyServerKey ==
  /\ fault # "null_server"
  /\ \A i \in 1..Len(incAdded) :
       LET line == CleanLine(fgets(incAdded[i]))
       IN  strchr(line, "=") # 0 /\ KeyOf(line) = SERVER

\* C10: the repositories find_active_repos returns have non-empty names,
\* no two of them the same.
C10_NamesNonEmptyAndDistinct ==
  pcParse = "done" =>
    /\ \A k \in 1..Len(active_repos) : active_repos[k].name # <<>>
    /\ \A j, k \in 1..Len(active_repos) :
         j # k => active_repos[j].name # active_repos[k].name

\* C11: once the included file could not be opened, and every Include= line
\* had a repository to add to, no step cuts the parse short: it ends only at
\* the end of the file, without a fault, and after every line the
\* repositories are those of the file without its Include= lines, so the
\* servers before the directive are kept, none is gained, and the later
\* lines count as they would without it.
C11_FailedIncludeIsAsIfAbsent ==
  [][ (incFile' = NoFile /\ ~oobRead') =>
        /\ pcParse' \in {"main", "done"}
        /\ pcParse' = "done" => file' = file
        /\ fault' = "none"
        /\ active_repos' = ReposOfLines(WithoutIncludes(CleanedFile'), <<>>)
    ]_vars

\* C11 witness: a returned repository whose Include= line named a file that
\* could not be opened and whose Server= line after it gave a server.
C11_Witness ==
  /\ pcParse = "done"
  /\ incFile = NoFile
  /\ Len(file) = MaxLines
  /\ HasKey(CleanedFile[MaxLines - 1], INCLUDE)
  /\ HasKey(CleanedFile[MaxLines], SERVER)
  /\ Len(active_repos) = 1
  /\ active_repos[1].servers # <<>>

C13_UnwritableCacheReturnsAtOnce ==
  [][ ~cacheWritable =>
        /\ pc = "start"
        /\ pc' = "returned"
        /\ ret' # 0
        /\ cache' = cache
        /\ alpm' = "none"
        /\ calls' = <<>>
        /\ fetchLog' = <<>>
    ]_vars

\* C13 witness: the run has returned for two repositories, one with a file
\* of a previous run, and a cache directory that is not writable.
C13_Witness ==
  /\ pc = "returned"
  /\ ~cacheWritable
  /\ Len(repos) = 2
  /\ \E n \in Names : cache[FilesPath(n)] = "old"

\* C14: the handle is released only from the initialized state, once every
\* repository has been processed, and in the step that returns; a run that
\* initialized it does not return without releasing it; and once released
\* it stays released, with no fetch and no stage call after that.
C14_ReleasedOnceAtTheEnd ==
  [][ /\ (alpm' = "released" /\ alpm # "released") =>
           /\ alpm = "live"
           /\ idx = Len(repos)
           /\ Len(DownloadCalls) = Len(repos)
           /\ pc' = "returned"
      /\ (pc' = "returned" /\ alpm = "live") => alpm' = "released"
      /\ alpm = "released" =>
           /\ alpm' = "released"
           /\ fetchLog' = fetchLog
           /\ calls' = calls
    ]_vars

\* C14 witness: a run of two repositories, one failing its download and
\* one its transcode, has released the handle and returned.
C14_Witness ==
  /\ pc = "returned"
  /\ alpm = "released"
  /\ Len(repos) = 2
  /\ \E k \in 1..Len(calls) : calls[k] = [fn |-> "download", repo |-> 1, result |-> "failed"]
  /\ \E k \in 1..Len(calls) : calls[k] = [fn |-> "decompress", repo |-> 2, result |-> "failed"]

\* The string has neither token in it.
NoToken(s) == strstr(s, ARCHVAR) = 0 /\ strstr(s, REPOVAR) = 0

\* The template with both tokens replaced in one pass from left to right.
RECURSIVE Substituted(_, _, _)
Substituted(u, r, a) ==
  IF u = <<>> THEN <<>>
  ELSE IF OccursAt(u, ARCHVAR, 1)
  THEN a \o Substituted(SubSeq(u, Len(ARCHVAR) + 1, Len(u)), r, a)
  ELSE IF OccursAt(u, REPOVAR, 1)
  THEN r \o Substituted(SubSeq(u, Len(REPOVAR) + 1, Len(u)), r, a)
  ELSE <<Head(u)>> \o Substituted(Tail(u), r, a)

\* The number of occurrences of needle in s.
Occurrences(s, needle) == Cardinality({n \in 1..Len(s) : OccursAt(s, needle, n)})

\* C15 as stated: for an architecture and a repository without a token in
\* them, prepare_url returns the template with both tokens replaced at
\* once, followed by /<repo><suffix>.
C15_ExpansionIsSimultaneous ==
  (pcUrl = "returned" /\ NoToken(arch) /\ NoToken(repo)) =>
    temp = Substituted(url, repo, arch) \o <<"/">> \o repo \o SUFFIX

\* C15 as amended: the same for the templates in which the replacement of
\* $arch completes no $repo that the template did not have.
C15_ExpansionIsSimultaneousUnlessCompleted ==
  (/\ pcUrl = "returned"
   /\ NoToken(arch)
   /\ NoToken(repo)
   /\ Occurrences(strreplace(url, ARCHVAR, arch), REPOVAR) = Occurrences(url, REPOVAR)) =>
    temp = Substituted(url, repo, arch) \o <<"/">> \o repo \o SUFFIX

\* C15 witness: a template with $repo, a separator and $arch has been
\* expanded for repository c and architecture x86.
C15_Witness ==
  /\ pcUrl = "returned"
  /\ url = REPOVAR \o <<"/">> \o ARCHVAR
  /\ repo = <<"c">>
  /\ arch = <<"x", "8", "6">>
  /\ temp = <<"c", "/", "x", "8", "6", "/", "c">> \o SUFFIX

\* C16: when the reading of the archive ended in an error, at a header or
\* inside an entry, decompress_repo_file returns non-zero and the canonical
\* file is still the download.
C16_ReadErrorFailsAndKeepsDownload ==
  (pc = "decompressed" /\ readEnd \in {"header_error", "data_error"}) =>
    /\ rc # 0
    /\ cache[FilesPath(CurrentRepo.name)] = "download"

\* C17: when decompress_repo_file returns after a failed write of a header
\* or of data, its temporary file is gone; when it returns after a failed
\* open, a temporary file in the cache is one that an earlier call for the
\* same name left after a failed rename, so none of this call's.
C17_FailureLeavesNoTemporary ==
  pc = "decompressed" =>
    /\ wfail \in {"header", "data"} =>
         cache[TempPath(CurrentRepo.name)] = "absent"
    /\ (wfail = "open" /\ cache[TempPath(CurrentRepo.name)] # "absent") =>
         \E k \in renameFailed : repos[k].name = CurrentRepo.name

\* The stage calls made for the repository at position k.
CallsFor(k) == SelectSeq(calls, LAMBDA c : c.repo = k)

\* C18: when the rename has failed, the canonical file is the download at
\* the return of decompress_repo_file, and the run goes on: it returns only
\* after the loop, with a download called for every repository and a
\* transcode for every one whose download succeeded.
C18_FailedRenameKeepsDownloadAndRunGoesOn ==
  /\ (pc = "decompressed" /\ (idx + 1) \in renameFailed) =>
       cache[FilesPath(CurrentRepo.name)] = "download"
  /\ (pc = "returned" /\ renameFailed # {}) =>
       /\ alpm = "released"
       /\ \A k \in 1..Len(repos) :
            /\ CallsFor(k) # <<>>
            /\ CallsFor(k)[1].fn = "download"
            /\ CallsFor(k)[1].result = "ok" =>
                 (Len(CallsFor(k)) = 2 /\ CallsFor(k)[2].fn = "decompress")

\* C18 witness: the rename failed for the first of two repositories and the
\* second was downloaded and transcoded before the run returned.
C18_Witness ==
  /\ pc = "returned"
  /\ renameFailed = {1}
  /\ Len(repos) = 2
  /\ Len(CallsFor(2)) = 2
  /\ CallsFor(2)[2] = [fn |-> "decompress", repo |-> 2, result |-> "ok"]
  /\ cache[TempPath(repos[1].name)] # "absent"

\* C19: at the end of a run, the canonical file of every repository whose
\* download and transcode both returned 0 is the complete sequential
\* archive of the download.
C19_SuccessMeansCompleteArchive ==
  (pc = "returned" /\ alpm = "released") =>
    \A k \in 1..Len(repos) :
      (/\ Len(CallsFor(k)) = 2
       /\ CallsFor(k)[1].result = "ok"
       /\ CallsFor(k)[2].result = "ok") =>
        cache[FilesPath(repos[k].name)] = "cpio_full"

====
